---- MODULE Spec2Model ----
(***************************************************************************)
(* A model of anonymize_pdf.py: the PDFAnonymizer class (known-name         *)
(* registry, form-field name extraction, PII span detection, span merging,  *)
(* page redaction, metadata removal, single-document and folder             *)
(* orchestration).                                                          *)
(*                                                                          *)
(* Text is a sequence of one-character strings.  Offsets are Python's:      *)
(* 0-based, spans are half open.  Two characters outside ASCII are part of  *)
(* the alphabet under the names "U+0130" (LATIN CAPITAL LETTER I WITH DOT   *)
(* ABOVE, inside the U+0100-U+017D range of _UPPER) and "U+0307" (COMBINING DOT       *)
(* ABOVE): str.lower() maps the former to the two characters "i" "U+0307".  *)
(***************************************************************************)
EXTENDS Integers, Sequences, FiniteSets, TLC

VARIABLES
    known_names,      \* self.known_names: set of texts
    redaction_count,  \* self.redaction_count
    redacted_items,   \* self.redacted_items: sequence of <<category, literal[:50]>>
    pc,               \* position of the running call
    mode,             \* "none" | "single" (anonymize_pdf called by main) | "folder"
    pdf_files,        \* anonymize_folder: the discovered files, in processing order
    file_idx,         \* anonymize_folder: number of files whose turn has started
    output_files,     \* anonymize_folder: its result list so far
    reported,         \* the "Processed: k/n" line as <<k, n>>, or <<>> before/without it
    doc,              \* the open fitz.Document, or NoDoc
    page_num,         \* anonymize_pdf: index of the page being processed
    page_text,        \* redact_page: text = page.get_text() of the current page
    outcome,          \* what is observed of the current top-level call (see NoOutcome)
    saved,            \* the file the last call of anonymize_pdf wrote: [path, doc], or NoSaved
    hist,             \* what is observed of the current anonymize_pdf call (see NoHist)
    arg,              \* input of the pure function under study (function specs)
    ret               \* its result, or NoRet before the call

vars == <<known_names, redaction_count, redacted_items, pc, mode, pdf_files,
          file_idx, output_files, reported, doc, page_num, page_text, outcome,
          saved, hist, arg, ret>>

----------------------------------------------------------------------------
(* Characters and the str methods the code uses *)

ASCII_UPPER == <<"A", "B", "C", "D", "E", "F", "G", "H", "I", "J", "K", "L", "M", "N", "O", "P", "Q", "R", "S", "T", "U", "V", "W", "X", "Y", "Z">>

ASCII_LOWER == <<"a", "b", "c", "d", "e", "f", "g", "h", "i", "j", "k", "l", "m", "n", "o", "p", "q", "r", "s", "t", "u", "v", "w", "x", "y", "z">>

DIGITS == {"0", "1", "2", "3", "4", "5", "6", "7", "8", "9"}

I_DOT == "U+0130"

DOT_ABOVE == "U+0307"

Range(s) == {s[i] : i \in 1..Len(s)}

\* the element of a one-element set.  With {e : x \in {d}} it names a value x
\* that is computed once, where a LET definition is computed at each use.
TheOnly(S) == CHOOSE r \in S : TRUE

Min(S) == TheOnly({CHOOSE x \in T : \A y \in T : x <= y : T \in {S}})

Max(S) == TheOnly({CHOOSE x \in T : \A y \in T : x >= y : T \in {S}})

IndexOf(s, c) == CHOOSE i \in 1..Len(s) : s[i] = c

\* str.isupper() of a one-character string
isupper(c) == c \in Range(ASCII_UPPER) \cup {I_DOT}

\* str.isalnum() of a one-character string (U+0307 is a mark: not alphanumeric)
isalnum(c) == c \in Range(ASCII_UPPER) \cup Range(ASCII_LOWER) \cup DIGITS \cup {I_DOT}

\* str.isspace() of a one-character string
isspace(c) == c \in {" ", "\n"}

\* str.lower() of a one-character string: a text, since U+0130 lowers to two characters
lower_char(c) ==
    IF c \in Range(ASCII_UPPER) THEN <<ASCII_LOWER[IndexOf(ASCII_UPPER, c)]>>
    ELSE IF c = I_DOT THEN <<"i", DOT_ABOVE>>
    ELSE <<c>>

RECURSIVE lower(_)
\* str.lower()
lower(s) == IF s = <<>> THEN <<>> ELSE lower_char(Head(s)) \o lower(Tail(s))

RECURSIVE lstrip(_)
lstrip(s) == IF s # <<>> /\ isspace(Head(s)) THEN lstrip(Tail(s)) ELSE s

RECURSIVE rstrip(_)
rstrip(s) ==
    IF s # <<>> /\ isspace(s[Len(s)]) THEN rstrip(SubSeq(s, 1, Len(s) - 1)) ELSE s

\* str.strip()
strip(s) == rstrip(lstrip(s))

RECURSIVE split_from(_, _, _)
\* str.split(): the whitespace-separated parts of s, cur being the part under way
split_from(s, cur, acc) ==
    IF s = <<>> THEN (IF cur = <<>> THEN acc ELSE Append(acc, cur))
    ELSE IF isspace(Head(s))
         THEN split_from(Tail(s), <<>>, IF cur = <<>> THEN acc ELSE Append(acc, cur))
         ELSE split_from(Tail(s), Append(cur, Head(s)), acc)

split(s) == split_from(s, <<>>, <<>>)

\* s[a:b] for 0 <= a
slice(s, a, b) == SubSeq(s, a + 1, IF b < Len(s) THEN b ELSE Len(s))

----------------------------------------------------------------------------
(* Module-level configuration *)

\* COMMON_WORDS, as the set literal evaluates: 'center' 'my' has no comma
\* between its two strings and is the single word 'centermy'
COMMON_WORDS == {
    <<"f","o","r">>, <<"t","h","e">>, <<"a","n","d">>, <<"o","r">>, <<"b","u","t">>,
    <<"w","i","t","h">>, <<"f","r","o","m">>, <<"t","o">>, <<"o","f">>, <<"i","n">>,
    <<"o","n">>, <<"a","t">>, <<"b","y">>, <<"a","s">>, <<"i","s">>, <<"a","r","e">>,
    <<"w","a","s">>, <<"w","e","r","e">>, <<"b","e">>, <<"b","e","e","n">>, <<"h","a","v","e">>,
    <<"h","a","s">>, <<"h","a","d">>, <<"d","o">>, <<"d","o","e","s">>, <<"d","i","d">>,
    <<"w","i","l","l">>, <<"w","o","u","l","d">>, <<"c","o","u","l","d">>,
    <<"s","h","o","u","l","d">>, <<"m","a","y">>, <<"m","i","g","h","t">>, <<"c","a","n">>,
    <<"m","u","s","t">>, <<"t","h","i","s">>, <<"t","h","a","t">>, <<"t","h","e","s","e">>,
    <<"t","h","o","s","e">>, <<"a">>, <<"a","n">>, <<"r","e","f","e","r","e","n","c","e">>,
    <<"r","e","f","e","r","e","n","c","e","s">>, <<"r","e","f","e","r">>,
    <<"r","e","f","e","r","r","i","n","g">>,
    <<"o","r","g","a","n","i","z","a","t","i","o","n">>, <<"c","e","n","t","e","r","m","y">>,
    <<"y","o","u","r">>, <<"h","i","s">>, <<"h","e","r">>, <<"i","t","s">>, <<"o","u","r">>,
    <<"t","h","e","i","r">>, <<"m","e">>, <<"y","o","u">>, <<"h","i","m">>, <<"u","s">>,
    <<"t","h","e","m">>, <<"i">>, <<"w","e">>, <<"t","h","e","y">>, <<"h","e">>,
    <<"s","h","e">>, <<"i","t">>, <<"c","r","o","s","s">>, <<"n","a","m","e">>,
    <<"t","i","t","l","e">>, <<"p","r","o","f","e","s","s","o","r">>,
    <<"d","e","p","a","r","t","m","e","n","t">>
}

\* KNOWN_NAMES when no config.py is importable
KNOWN_NAMES == {}

----------------------------------------------------------------------------
(* The regular-expression constructs FORM_FIELD_PATTERNS and NAME_PATTERNS  *)
(* are built from, as re evaluates them on the model's alphabet.  A match   *)
(* is <<start, end>>; NoMatch when there is none.                           *)

NoMatch == <<-1, -1>>

\* \w
is_word(c) == isalnum(c) \/ c = "_"

\* \b at offset p of t
word_boundary(t, p) ==
    LET before == p > 0 /\ is_word(t[p])
        after == p < Len(t) /\ is_word(t[p + 1])
    IN  before # after

\* the one-character case folding re.IGNORECASE compares with
fold(c) ==
    IF c \in Range(ASCII_UPPER) THEN ASCII_LOWER[IndexOf(ASCII_UPPER, c)]
    ELSE IF c = I_DOT THEN "i"
    ELSE c

\* a literal (given in lower case) at offset p under re.IGNORECASE: its end, or -1
lit_icase(t, p, lit) ==
    IF /\ p >= 0
       /\ p + Len(lit) <= Len(t)
       /\ \A i \in 1..Len(lit) : fold(t[p + i]) = lit[i]
    THEN p + Len(lit) ELSE -1

\* a case-sensitive literal at offset p: its end, or -1
lit_exact(t, p, lit) ==
    IF p >= 0 /\ p + Len(lit) <= Len(t) /\ SubSeq(t, p + 1, p + Len(lit)) = lit
    THEN p + Len(lit) ELSE -1

RECURSIVE skip_space(_, _)
\* \s* from offset p (greedy): the offset after the whitespace run
skip_space(t, p) ==
    IF p < Len(t) /\ isspace(t[p + 1]) THEN skip_space(t, p + 1) ELSE p

\* _UPPER and _LOWER under re.IGNORECASE: every letter of the alphabet is in both
is_name_letter(c) == c \in Range(ASCII_UPPER) \cup Range(ASCII_LOWER) \cup {I_DOT}

RECURSIVE letter_run_end(_, _)
letter_run_end(t, p) ==
    IF p < Len(t) /\ is_name_letter(t[p + 1]) THEN letter_run_end(t, p + 1) ELSE p

\* _NAME_WORD_STRICT at p where a non-letter must follow (\s+ or the lookahead):
\* one letter and 2 to 25 more, the whole run of letters; its end, or -1
name_word_strict(t, p) ==
    TheOnly({IF e - p >= 3 /\ e - p <= 26 THEN e ELSE -1 : e \in {letter_run_end(t, p)}})

\* (?=\s|$|\n|[^\w\xC0-\xFF]) at offset e
lookahead(t, e) == e = Len(t) \/ ~is_word(t[e + 1])

RECURSIVE capture_end(_, _, _)
\* (W(?:\s+W){0,extra})(?=...) at p, greedy with backtracking: the end of the
\* longest run of words after which the rest of the pattern matches, or -1
capture_end(t, p, extra) ==
    TheOnly({
        IF e = -1 THEN -1
        ELSE TheOnly({
            IF extra > 0 /\ q > e
            THEN TheOnly({IF more # -1 THEN more
                          ELSE IF lookahead(t, e) THEN e ELSE -1 :
                          more \in {capture_end(t, q, extra - 1)}})
            ELSE IF lookahead(t, e) THEN e ELSE -1 :
            q \in {skip_space(t, e)}}) :
        e \in {name_word_strict(t, p)}})

\* \s*:?\s* from offset p: the offset after it
sep_end(t, p) ==
    TheOnly({skip_space(t, IF q < Len(t) /\ t[q + 1] = ":" THEN q + 1 ELSE q) :
             q \in {skip_space(t, p)}})

\* the capture after a label that ends at offset c
capture_after(t, c, extra) ==
    IF c = -1 THEN NoMatch
    ELSE TheOnly({TheOnly({IF e = -1 THEN NoMatch ELSE <<d, e>> :
                           e \in {capture_end(t, d, extra)}}) :
                  d \in {sep_end(t, c)}})

\* \b<word>\s+Name\b\s*:?\s*(W(?:\s+W){0,extra})(?=...) at offset p: group 1
match_label(t, p, word, extra) ==
    IF ~word_boundary(t, p) THEN NoMatch
    ELSE TheOnly({
        IF a = -1 THEN NoMatch
        ELSE TheOnly({
            IF b = a THEN NoMatch
            ELSE TheOnly({IF c # -1 /\ word_boundary(t, c)
                          THEN capture_after(t, c, extra) ELSE NoMatch :
                          c \in {lit_icase(t, b, <<"n", "a", "m", "e">>)}}) :
            b \in {skip_space(t, a)}}) :
        a \in {lit_icase(t, p, word)}})

ROLE_WORDS == <<
    <<"r", "e", "c", "o", "m", "m", "e", "n", "d", "e", "r">>,
    <<"r", "e", "f", "e", "r", "e", "n", "c", "e">>,
    <<"r", "e", "f", "e", "r", "e", "e">>,
    <<"s", "u", "p", "e", "r", "v", "i", "s", "o", "r">>,
    <<"a", "d", "v", "i", "s", "o", "r">>,
    <<"m", "a", "n", "a", "g", "e", "r">>,
    <<"m", "e", "n", "t", "o", "r">>
>>

RECURSIVE digit_run_end(_, _)
digit_run_end(t, p) ==
    IF p < Len(t) /\ t[p + 1] \in DIGITS THEN digit_run_end(t, p + 1) ELSE p

\* (?:\d+\s*(?:Name)?|Name)\s*:?\s*(W(?:\s+W){0,2})(?=...) at offset b, d being
\* the end of the digits at b: with digits, Name is taken if the rest then
\* matches, and left to the capture if not
role_rest(t, b, d) ==
    IF d > b
    THEN TheOnly({
        TheOnly({IF numbered_name # NoMatch THEN numbered_name
                 ELSE capture_after(t, s, 2) :
                 numbered_name \in {capture_after(t, lit_icase(t, s, <<"n", "a", "m", "e">>), 2)}}) :
        s \in {skip_space(t, d)}})
    ELSE TheOnly({capture_after(t, c, 2) : c \in {lit_icase(t, b, <<"n", "a", "m", "e">>)}})

\* \b(?:Recommender|...)\s+(?:\d+\s*(?:Name)?|Name)\s*:?\s*(W(?:\s+W){0,2})(?=...)
\* at offset p: group 1.  No \b follows Name here.
match_role(t, p) ==
    IF ~word_boundary(t, p) THEN NoMatch
    ELSE TheOnly({
        IF ends = {} THEN NoMatch
        ELSE TheOnly({
            IF b = Max(ends) THEN NoMatch
            ELSE TheOnly({role_rest(t, b, d) : d \in {digit_run_end(t, b)}}) :
            b \in {skip_space(t, Max(ends))}}) :
        ends \in {{lit_icase(t, p, ROLE_WORDS[i]) : i \in 1..Len(ROLE_WORDS)} \ {-1}}})

\* FORM_FIELD_PATTERNS[k] tried at offset p (re.IGNORECASE | re.MULTILINE)
form_field_match(k, t, p) ==
    CASE k = 1 -> match_label(t, p, <<"f", "i", "r", "s", "t">>, 0)
      [] k = 2 -> match_label(t, p, <<"l", "a", "s", "t">>, 1)
      [] k = 3 -> match_label(t, p, <<"f", "u", "l", "l">>, 3)
      [] k = 4 -> match_label(t, p, <<"m", "i", "d", "d", "l", "e">>, 0)
      [] k = 5 -> match_role(t, p)

RECURSIVE form_field_finditer(_, _, _)
\* pattern.finditer(text) from offset pos: the group-1 spans of the leftmost,
\* non-overlapping matches (a match ends where its group ends)
form_field_finditer(k, t, pos) ==
    IF pos > Len(t) THEN {}
    ELSE UNION {IF m = NoMatch THEN form_field_finditer(k, t, pos + 1)
                ELSE {m} \cup form_field_finditer(k, t, m[2]) :
                m \in {form_field_match(k, t, pos)}}

\* PDFAnonymizer.extract_names_from_form_fields
extract_names_from_form_fields(text) ==
    {name_clean \in {strip(slice(text, m[1], m[2])) :
                        m \in UNION {form_field_finditer(k, text, 0) : k \in 1..5}} :
        /\ Len(name_clean) >= 2
        /\ lower(name_clean) \notin COMMON_WORDS
        /\ isupper(name_clean[1])}

----------------------------------------------------------------------------
(* The known-name registry *)

\* the parts of a name that are added beside it: longer than 2 characters,
\* not a common word, starting with a capital
name_parts(name) ==
    {part_clean \in {strip(part) : part \in Range(split(name))} :
        /\ Len(part_clean) > 2
        /\ lower(part_clean) \notin COMMON_WORDS
        /\ isupper(part_clean[1])}

\* one iteration of add_known_names' loop: what it adds for one name
add_known_name(name) ==
    TheOnly({IF lower(name_clean) \notin COMMON_WORDS
             THEN {name_clean} \cup name_parts(name_clean)
             ELSE {} :
             name_clean \in {strip(name)}})

\* redact_page, lines 330-340: what it adds for one extracted name
harvest_name(name) ==
    IF lower(name) \notin COMMON_WORDS THEN {name} \cup name_parts(name) ELSE {}

----------------------------------------------------------------------------
(* The compiled patterns.  Every alternative of the email pattern needs a   *)
(* ".", of the phone pattern a digit, of the url pattern a "." or a "/"     *)
(* (lines 82-119): the texts of the specifications hold none of these       *)
(* characters, so the three patterns match nothing in them.                 *)
(* CUSTOM_PATTERNS is empty (lines 68-72, no config.py).                    *)

\* PII_PATTERNS["username"], @[A-Za-z][A-Za-z0-9_]{2,30} under re.IGNORECASE,
\* tried at offset p
username_match(t, p) ==
    IF p + 1 < Len(t) /\ t[p + 1] = "@" /\ t[p + 2] \notin DIGITS \cup {"_"}
    THEN TheOnly({
        IF e - (p + 1) >= 3
        THEN <<p, IF e - (p + 1) > 31 THEN p + 1 + 31 ELSE e>>
        ELSE NoMatch :
        e \in {Max({n \in (p + 1)..Len(t) :
                      \A i \in (p + 2)..n :
                          t[i] \in Range(ASCII_UPPER) \cup Range(ASCII_LOWER) \cup DIGITS
                                   \cup {"_", I_DOT}})}})
    ELSE NoMatch

\* _UPPER, case-sensitive
is_upper_class(c) == c \in Range(ASCII_UPPER) \cup {I_DOT}

\* _LOWER, case-sensitive: its range U+0101-U+017E holds U+0130 too
is_lower_class(c) == c \in Range(ASCII_LOWER) \cup {I_DOT}

RECURSIVE lower_run_end(_, _)
lower_run_end(t, p) ==
    IF p < Len(t) /\ is_lower_class(t[p + 1]) THEN lower_run_end(t, p + 1) ELSE p

\* _NAME_WORD at p where a non-word character, whitespace or the end must follow:
\* an _UPPER character and the whole run of _LOWER characters after it; its
\* end, or -1
name_word(t, p) ==
    IF p < Len(t) /\ is_upper_class(t[p + 1])
    THEN TheOnly({IF e > p + 1 THEN e ELSE -1 : e \in {lower_run_end(t, p + 1)}})
    ELSE -1

RECURSIVE name_words_end(_, _, _)
\* _NAME_WORD(?:\s+_NAME_WORD){0,extra}\b at p, greedy with backtracking
name_words_end(t, p, extra) ==
    TheOnly({
        IF e = -1 THEN -1
        ELSE TheOnly({
            IF extra > 0 /\ q > e
            THEN TheOnly({IF more # -1 THEN more
                          ELSE IF word_boundary(t, e) THEN e ELSE -1 :
                          more \in {name_words_end(t, q, extra - 1)}})
            ELSE IF word_boundary(t, e) THEN e ELSE -1 :
            q \in {skip_space(t, e)}}) :
        e \in {name_word(t, p)}})

TITLES == <<
    <<"M", "r">>, <<"M", "r", ".">>,
    <<"M", "r", "s">>, <<"M", "r", "s", ".">>,
    <<"M", "s">>, <<"M", "s", ".">>,
    <<"M", "i", "s", "s">>,
    <<"D", "r">>, <<"D", "r", ".">>,
    <<"P", "r", "o", "f">>, <<"P", "r", "o", "f", ".">>,
    <<"P", "r", "o", "f", "e", "s", "s", "o", "r">>
>>

\* NAME_PATTERNS[0], a title and one to three name words, tried at offset p
name_pattern_0_match(t, p) ==
    IF ~word_boundary(t, p) THEN NoMatch
    ELSE TheOnly({
        IF ends = {} THEN NoMatch
        ELSE TheOnly({IF e # -1 THEN <<p, e>> ELSE NoMatch :
                      e \in {name_words_end(t, skip_space(t, Max(ends)), 2)}}) :
        ends \in {{a \in {lit_exact(t, p, TITLES[i]) : i \in 1..Len(TITLES)} \ {-1} :
                     skip_space(t, a) > a}}})

SUFFIXES == <<
    <<"J", "r">>, <<"J", "r", ".">>,
    <<"S", "r">>, <<"S", "r", ".">>,
    <<"I", "I", "I">>, <<"I", "I">>,
    <<"I", "V">>
>>

\* \s+(?:Jr\.?|Sr\.?|III?|IV)\b after a name word that ends at offset c: its end, or -1
suffix_end(t, c) ==
    IF c = -1 THEN -1
    ELSE TheOnly({
        IF d = c THEN -1
        ELSE TheOnly({IF ends = {} THEN -1 ELSE Max(ends) :
                      ends \in {{e \in {lit_exact(t, d, SUFFIXES[i]) :
                                          i \in 1..Len(SUFFIXES)} \ {-1} :
                                    word_boundary(t, e)}}}) :
        d \in {skip_space(t, c)}})

\* NAME_PATTERNS[1], two name words and a generational suffix, tried at offset p
name_pattern_1_match(t, p) ==
    IF ~word_boundary(t, p) THEN NoMatch
    ELSE TheOnly({
        IF a = -1 THEN NoMatch
        ELSE TheOnly({
            IF b = a THEN NoMatch
            ELSE TheOnly({IF e = -1 THEN NoMatch ELSE <<p, e>> :
                          e \in {suffix_end(t, name_word(t, b))}}) :
            b \in {skip_space(t, a)}}) :
        a \in {name_word(t, p)}})

\* the categories of self.compiled_patterns that can match, in list order
COMPILED_PATTERNS == <<"username", "name_pattern_0", "name_pattern_1">>

compiled_match(category, t, p) ==
    CASE category = "username" -> username_match(t, p)
      [] category = "name_pattern_0" -> name_pattern_0_match(t, p)
      [] category = "name_pattern_1" -> name_pattern_1_match(t, p)

RECURSIVE finditer(_, _, _)
\* pattern.finditer(text) from offset pos, in order (matches are never empty)
finditer(category, t, pos) ==
    IF pos > Len(t) THEN <<>>
    ELSE TheOnly({IF m = NoMatch THEN finditer(category, t, pos + 1)
                  ELSE <<<<m[1], m[2], category>>>> \o finditer(category, t, m[2]) :
                  m \in {compiled_match(category, t, pos)}})

RECURSIVE pattern_matches(_, _)
\* find_pii_in_text, lines 266-268: the matches of patterns k.. in list order
pattern_matches(k, t) ==
    IF k > Len(COMPILED_PATTERNS) THEN <<>>
    ELSE finditer(COMPILED_PATTERNS[k], t, 0) \o pattern_matches(k + 1, t)

----------------------------------------------------------------------------
(* Span merging *)

\* the sort key (x[0], -x[1]): a sorts no later than b
key_le(a, b) == a[1] < b[1] \/ (a[1] = b[1] /\ a[2] >= b[2])

RECURSIVE insert_stable(_, _)
\* x put into the sorted s after every element that sorts no later (stable)
insert_stable(s, x) ==
    IF s = <<>> THEN <<x>>
    ELSE IF key_le(s[Len(s)], x) THEN Append(s, x)
    ELSE TheOnly({Append(insert_stable(front, x), s[Len(s)]) :
                  front \in {SubSeq(s, 1, Len(s) - 1)}})

RECURSIVE sorted(_)
\* sorted(matches, key=lambda x: (x[0], -x[1]))
sorted(matches) ==
    IF matches = <<>> THEN <<>>
    ELSE TheOnly({insert_stable(front, matches[Len(matches)]) :
                  front \in {sorted(SubSeq(matches, 1, Len(matches) - 1))}})

\* merge_step with "start < last_end" for "start <= last_end": spans that only
\* touch are kept apart
merge_step_apart(merged, x) ==
    TheOnly({
        IF x[1] < last[2]
        THEN IF x[2] > last[2]
             THEN [merged EXCEPT ![Len(merged)] = <<last[1], x[2], last[3]>>]
             ELSE merged
        ELSE Append(merged, x) :
        last \in {merged[Len(merged)]}})

\* merge_step with the extended span given the category of the span that
\* extends it
merge_step_recategorize(merged, x) ==
    TheOnly({
        IF x[1] <= last[2]
        THEN IF x[2] > last[2]
             THEN [merged EXCEPT ![Len(merged)] = <<last[1], x[2], x[3]>>]
             ELSE merged
        ELSE Append(merged, x) :
        last \in {merged[Len(merged)]}})

\* one iteration of the loop of _merge_overlapping, lines 307-314
merge_step(merged, x) ==
    TheOnly({
        IF x[1] <= last[2]
        THEN IF x[2] > last[2]
             THEN [merged EXCEPT ![Len(merged)] = <<last[1], x[2], last[3]>>]
             ELSE merged
        ELSE Append(merged, x) :
        last \in {merged[Len(merged)]}})

RECURSIVE merge_walk(_, _)
merge_walk(rest, merged) ==
    IF rest = <<>> THEN merged
    ELSE TheOnly({merge_walk(Tail(rest), next) : next \in {merge_step(merged, Head(rest))}})

\* PDFAnonymizer._merge_overlapping
merge_overlapping(matches) ==
    IF matches = <<>> THEN <<>>
    ELSE TheOnly({merge_walk(Tail(sorted_matches), <<Head(sorted_matches)>>) :
                  sorted_matches \in {sorted(matches)}})

----------------------------------------------------------------------------
(* Span detection *)

\* the registry names the known-name loop scans: not empty, not a common
\* word and at least 3 characters once lowered and stripped (lines 274-282)
is_scanned(name) ==
    /\ name # <<>>
    /\ strip(lower(name)) \notin COMMON_WORDS
    /\ Len(strip(lower(name))) >= 3

\* every pos the loop of lines 284-293 gets from text_lower.find
find_positions(name, text) ==
    TheOnly({
        TheOnly({{p \in 0..(Len(text_lower) - Len(name_lower)) :
                     SubSeq(text_lower, p + 1, p + Len(name_lower)) = name_lower} :
                 name_lower \in {strip(lower(name))}}) :
        text_lower \in {lower(text)}})

\* line 289
before_ok(text, pos) == pos = 0 \/ ~isalnum(text[pos])

\* line 290
after_ok(name, text, pos) ==
    pos + Len(name) >= Len(text) \/ ~isalnum(text[pos + Len(name) + 1])

\* line 289 reads text[pos-1] with pos an offset into text_lower: past the
\* end of text it raises IndexError
raises_index_error(name, text) ==
    \E pos \in find_positions(name, text) : pos > 0 /\ pos - 1 >= Len(text)

\* the offsets at which the known-name loop records a match for name
known_name_offsets(name, text) ==
    {pos \in find_positions(name, text) :
        /\ pos <= Len(text)
        /\ before_ok(text, pos)
        /\ after_ok(name, text, pos)}

RECURSIVE seq_of(_)
\* the elements of a finite set of spans as a list (the order a set is
\* iterated in is not specified; all these spans carry the same category)
seq_of(S) ==
    IF S = {} THEN <<>>
    ELSE TheOnly({<<x>> \o seq_of(S \ {x}) :
                  x \in {CHOOSE y \in S : \A z \in S : key_le(y, z)}})

\* the matches the known-name loop appends
known_name_matches(names, text) ==
    seq_of(UNION {{<<pos, pos + Len(name), "known_name">> :
                      pos \in known_name_offsets(name, text)} :
                  name \in {n \in names : is_scanned(n)}})

\* what the known-name loop records, as <<name, pos>>
known_name_scan(names, text) ==
    UNION {{<<name, pos>> : pos \in known_name_offsets(name, text)} :
           name \in {n \in names : is_scanned(n)}}

\* whether find_pii_in_text(text) ends in the IndexError of line 289
find_pii_raises(names, text) ==
    \E name \in names : is_scanned(name) /\ raises_index_error(name, text)

\* PDFAnonymizer.find_pii_in_text, when it returns: the merged spans
find_pii_in_text(names, text) ==
    TheOnly({merge_overlapping(matches) :
             matches \in {pattern_matches(1, text) \o known_name_matches(names, text)}})

----------------------------------------------------------------------------
(* Page redaction.  The page collaborator (fitz.Page) is not code of this   *)
(* repository: search_for returns every occurrence of the literal in the    *)
(* page's text, and apply_redactions removes the text inside every marked   *)
(* region and puts the annotation's replacement text in its place if it     *)
(* fits the region (whether it fits depends on the page's geometry, which   *)
(* the text does not tell).                                                 *)

\* the text= argument of add_redact_annot, line 357
REDACTED_LABEL == <<"[", "R", "E", "D", "A", "C", "T", "E", "D", "]">>

\* page.search_for(literal): the offsets of its occurrences (none for "")
search_for(text, literal) ==
    IF literal = <<>> THEN {}
    ELSE {p \in 0..(Len(text) - Len(literal)) :
             SubSeq(text, p + 1, p + Len(literal)) = literal}

\* the loop of lines 346-363 over matches[k..]: one <<category, literal,
\* offset>> per redaction annotation added, in order
RECURSIVE annotations(_, _, _)
annotations(text, matches, k) ==
    IF k > Len(matches) THEN <<>>
    ELSE TheOnly({
        seq_of({<<inst, inst + Len(redacted_text), <<matches[k][3], redacted_text>>>> :
                   inst \in search_for(text, redacted_text)})
        \o annotations(text, matches, k + 1) :
        redacted_text \in {slice(text, matches[k][1], matches[k][2])}})

RECURSIVE page_calls(_, _, _)
\* the calls the loop of lines 346-363 makes on the page for matches[k..],
\* in order: one search_for per span (with the span's index), then one
\* add_redact_annot per instance found (with the instance's offset)
page_calls(text, matches, k) ==
    IF k > Len(matches) THEN <<>>
    ELSE TheOnly({
        <<<<"search_for", k>>>>
        \o [i \in 1..Len(insts) |-> <<"add_redact_annot", insts[i][1]>>]
        \o page_calls(text, matches, k + 1) :
        insts \in {seq_of({<<inst, inst + Len(redacted_text), "instance">> :
                              inst \in search_for(text, redacted_text)}) :
                   redacted_text \in {slice(text, matches[k][1], matches[k][2])}}})

\* lines 366-367 as `if True:`
commit_calls_always(count) == <<<<"apply_redactions", 0>>>>

\* lines 366-367: the page's marks are applied if there is any
commit_calls(count) ==
    IF count > 0 THEN <<<<"apply_redactions", 0>>>> ELSE <<>>

RECURSIVE apply_from(_, _, _, _)
\* page.apply_redactions() from offset p on: marked characters go, and each
\* marked region leaves the label (empty if it does not fit) where it starts
apply_from(text, marks, label, p) ==
    IF p >= Len(text) THEN <<>>
    ELSE (IF \E m \in marks : m[1] = p THEN label ELSE <<>>)
         \o (IF \E m \in marks : m[1] <= p /\ p < m[2] THEN <<>> ELSE <<text[p + 1]>>)
         \o apply_from(text, marks, label, p + 1)

apply_redactions(text, marks, label_fits) ==
    TheOnly({apply_from(text, m, IF label_fits THEN REDACTED_LABEL ELSE <<>>, 0) :
             m \in {marks}})

\* redact_page from line 342 on, for the page text and the registry as the
\* harvest left it: IndexError out of find_pii_in_text, or the count
\* returned, the audit records appended and the page's text afterwards
redact_matches(names, text, label_fits) ==
    IF find_pii_raises(names, text) THEN [raised |-> TRUE]
    ELSE TheOnly({
        TheOnly({
            TheOnly({
                [raised |-> FALSE,
                 matches |-> matches,
                 count |-> Len(annots),
                 items |-> [i \in 1..Len(annots) |->
                               <<annots[i][3][1], slice(annots[i][3][2], 0, 50)>>],
                 literals |-> {annots[i][3][2] : i \in 1..Len(annots)},
                 calls |-> page_calls(text, matches, 1) \o commit,
                 applied |-> commit # <<>>,
                 text |-> IF commit # <<>>
                          THEN apply_redactions(text,
                                   {<<annots[i][1], annots[i][2]>> : i \in 1..Len(annots)},
                                   label_fits)
                          ELSE text] :
                commit \in {commit_calls(Len(annots))}}) :
            annots \in {annotations(text, matches, 1)}}) :
        matches \in {find_pii_in_text(names, text)}})

----------------------------------------------------------------------------
(* Metadata removal and the end of a raised exception *)

\* remove_metadata without its call of set_metadata({})
remove_metadata_keep(d, set_metadata_fails, xref_set_key_fails) ==
    [raised |-> FALSE,
     doc |-> [d EXCEPT !.xml = IF xref_set_key_fails THEN d.xml ELSE "null"]]

\* remove_metadata without the try around xref_set_key
remove_metadata_unguarded(d, set_metadata_fails, xref_set_key_fails) ==
    IF set_metadata_fails \/ xref_set_key_fails THEN [raised |-> TRUE, doc |-> d]
    ELSE [raised |-> FALSE, doc |-> [d EXCEPT !.metadata = {}, !.xml = "null"]]

\* PDFAnonymizer.remove_metadata on document d, given which of its two calls
\* fail: set_metadata({}) is outside the try, xref_set_key inside it
remove_metadata(d, set_metadata_fails, xref_set_key_fails) ==
    IF set_metadata_fails THEN [raised |-> TRUE, doc |-> d]
    ELSE [raised |-> FALSE,
          doc |-> [d EXCEPT !.metadata = {},
                            !.xml = IF xref_set_key_fails THEN d.xml ELSE "null"]]

\* after_raise without the try of anonymize_folder: the exception ends the
\* batch too
after_raise_abort(m) == "done"

\* where control goes when anonymize_pdf raises: anonymize_folder catches
\* Exception per file and goes on with the next file (lines 468-472); main
\* reports the error and exits (lines 587-592)
after_raise(m) == IF m = "folder" THEN "file" ELSE "done"

\* reset_counters that starts each document from the configured names
reset_counters_all(names) ==
    [known_names |-> KNOWN_NAMES, redaction_count |-> 0, redacted_items |-> <<>>]

\* anonymize_pdf, lines 400-402: the counters are reset, the registry is not
reset_counters(names) ==
    [known_names |-> names, redaction_count |-> 0, redacted_items |-> <<>>]

----------------------------------------------------------------------------
(* Inputs and bounds *)

MaxFiles == 3

MaxPages == 2

MaxTokens == 3

MaxNames == 2

MaxSpans == 3

MaxPos == 4

\* how often the pipeline is run over one document (a run, and a re-run of its output)
MaxRuns == 2

NoDoc == [open |-> FALSE, pages |-> <<>>, metadata |-> {}, xml |-> "null",
          run |-> 0, prior |-> <<>>]

NoSaved == [path |-> -1, doc |-> NoDoc]

\* what is observed of the current anonymize_pdf call
NoHist == [processed |-> <<>>,     \* indices of the pages redact_page has finished
           accepted |-> {},        \* <<page, name the form-field extractor accepted>>
           scanned |-> {},         \* <<page, registry as find_pii_in_text saw it>>
           matches |-> <<>>,       \* per page: the spans find_pii_in_text returned
           texts |-> <<>>,         \* per page: the text it was given
           literals |-> <<>>,      \* per page: the literals redacted
           calls |-> <<>>,         \* per page: the calls redact_page made on the page
           counts |-> <<>>,        \* per page: the count redact_page returned
           items |-> <<>>,         \* per page: the audit records it appended
           meta_failed |-> "none", \* the call of remove_metadata that failed
           raised |-> "none",      \* the call whose exception left anonymize_pdf
           saved |-> FALSE,        \* doc.save has written the output
           returned |-> FALSE]     \* anonymize_pdf has returned the output path

\* what is observed of the current top-level call
NoOutcome == [attempted |-> <<>>,  \* files anonymize_pdf was called for
              completed |-> <<>>,  \* files for which it returned
              failed |-> <<>>,     \* files for which it raised
              harvested |-> {}]    \* names harvested from earlier documents

RECURSIVE concat(_)
concat(ss) == IF ss = <<>> THEN <<>> ELSE Head(ss) \o concat(Tail(ss))

SeqsUpTo(S, n) == UNION {[1..k -> S] : k \in 0..n}

\* a document as fitz.open returns it
Document(pages) ==
    [open |-> TRUE, pages |-> pages, metadata |-> {"author"}, xml |-> "present",
     run |-> 0, prior |-> [i \in 1..Len(pages) |-> {}]]

T_FORM == <<"F", "i", "r", "s", "t", " ", "N", "a", "m", "e", ":", " ", "A", "n", "n">>

T_NONE == <<"x">>

\* the page texts of the batch specification
BatchTexts == {T_FORM, T_NONE}

BatchDocs == {Document(pages) : pages \in SeqsUpTo(BatchTexts, MaxPages) \ {<<>>}}

\* the constructor's known_names arguments (the empty set stands for None too)
BatchSeeds == {{}}

\* the names lists add_known_names is called with
BatchNameLists == {<<<<"T", "h", "e", " ", "O", "r", "g", "a", "n", "i", "z", "a", "t", "i", "o", "n">>>>}

T_DOT_FORM == <<I_DOT, " ">> \o T_FORM

T_NAME == <<"A", "n", "n">>

T_DOT_NAME == <<I_DOT, " ", "A", "n", "n">>

T_LABEL == <<"R", "E", "D", "A", "C", "T", "E", "D">>

\* the page texts of the single-document specification
DocTexts == {T_FORM, T_DOT_FORM, T_NAME, T_DOT_NAME, T_LABEL, T_NONE}

DocDocs == {Document(pages) : pages \in SeqsUpTo(DocTexts, MaxPages) \ {<<>>}}

DocSeeds == {{}, {<<"T", "h", "e">>}}

DocNameLists == {<<T_LABEL>>}

T_TWICE == T_NAME \o <<",", " ">> \o T_NAME

\* the page texts of the page specification
PageTexts == {T_FORM, T_NAME, T_TWICE, T_NONE}

PageDocs == {Document(pages) : pages \in SeqsUpTo(PageTexts, MaxPages) \ {<<>>}}

PageNameLists == {<<T_NAME>>}

\* the registry names of the detection specification: a name, the same with
\* a trailing blank (the constructor takes names as they are), a common
\* word, and a name that starts with U+0130
DetectNamePool ==
    {<<"A", "n", "n">>, <<"A", "n", "n", " ">>, <<"T", "h", "e">>, <<I_DOT, "a", "n">>}

DetectNames == {S \in SUBSET DetectNamePool : Cardinality(S) <= MaxNames}

DetectTokens == {<<"A", "n", "n">>, <<I_DOT, "a", "n">>, <<"a">>, <<" ">>, <<I_DOT>>}

DetectExamples ==
    {<<"A", "n", "n", "a", " ", "K", "a", "r", "e", "n", "i", "n", "a">>,
     <<"A", "n", "n", ",", " ", "p", "l", "e", "a", "s", "e", " ", "r", "e", "p", "l", "y">>,
     <<"(", "A", "n", "n", ")">>}

\* the texts find_pii_in_text is called with
DetectTexts == {concat(ts) : ts \in SeqsUpTo(DetectTokens, MaxTokens)} \cup DetectExamples

\* no function is under study
NoArg == [kind |-> "none", names |-> {}, text |-> <<>>, matches |-> <<>>]

\* the function under study has not returned
NoRet == [done |-> FALSE, raised |-> FALSE, scan |-> {}, spans |-> <<>>]

\* the categories of the raw spans of a list, by position in the list
SpanCategories == <<"a", "b", "c", "d", "e">>

\* the raw spans: 0 <= start < end <= MaxPos
RawSpans == {se \in (0..MaxPos) \X (0..MaxPos) : se[1] < se[2]}

MergeExample == <<<<0, 5, "a">>, <<3, 8, "b">>, <<10, 12, "c">>>>

\* the lists _merge_overlapping is called with
MergeInputs ==
    {[i \in 1..Len(ps) |-> <<ps[i][1], ps[i][2], SpanCategories[i]>>] :
        ps \in SeqsUpTo(RawSpans, MaxSpans)} \cup {MergeExample}

----------------------------------------------------------------------------
(* The anonymizer, one action per step of its calls *)

machine_vars == <<known_names, redaction_count, redacted_items, pc, mode, pdf_files,
                  file_idx, output_files, reported, doc, page_num, page_text,
                  outcome, saved, hist>>

\* PDFAnonymizer.__init__, line 183: a falsy argument gives a copy of KNOWN_NAMES
Construct(seeds) ==
    /\ known_names = (IF seeds = {} THEN KNOWN_NAMES ELSE seeds)
    /\ redaction_count = 0
    /\ redacted_items = <<>>
    /\ pc = "idle"
    /\ mode = "none"
    /\ pdf_files = <<>>
    /\ file_idx = 0
    /\ output_files = <<>>
    /\ reported = <<>>
    /\ doc = NoDoc
    /\ page_num = 0
    /\ page_text = <<>>
    /\ outcome = NoOutcome
    /\ saved = NoSaved
    /\ hist = NoHist

Init ==
    /\ \E seeds \in BatchSeeds : Construct(seeds)
    /\ arg = NoArg
    /\ ret = NoRet

\* PDFAnonymizer.add_known_names
AddKnownNames(names) ==
    /\ pc = "idle"
    /\ known_names' = known_names \cup UNION {add_known_name(names[i]) : i \in 1..Len(names)}
    /\ UNCHANGED <<redaction_count, redacted_items, pc, mode, pdf_files, file_idx,
                   output_files, reported, doc, page_num, page_text, outcome, saved,
                   hist, arg, ret>>

\* anonymize_folder up to its loop (lines 447-465), n files discovered
AnonymizeFolder(n) ==
    /\ pc = "idle"
    /\ mode' = "folder"
    /\ pdf_files' = [i \in 1..n |-> i]
    /\ file_idx' = 0
    /\ output_files' = <<>>
    /\ reported' = <<>>
    /\ pc' = IF n = 0 THEN "done" ELSE "file"
    /\ outcome' = NoOutcome
    /\ hist' = NoHist
    /\ saved' = NoSaved
    /\ UNCHANGED <<known_names, redaction_count, redacted_items, doc, page_num,
                   page_text, arg, ret>>

\* the loop of anonymize_folder takes the next file and calls anonymize_pdf
FolderNext ==
    /\ pc = "file"
    /\ file_idx < Len(pdf_files)
    /\ file_idx' = file_idx + 1
    /\ outcome' = [outcome EXCEPT !.attempted = Append(@, pdf_files[file_idx + 1]),
                                  !.harvested = @ \cup {a[2] : a \in hist.accepted}]
    /\ hist' = NoHist
    /\ saved' = NoSaved
    /\ pc' = "open"
    /\ UNCHANGED <<known_names, redaction_count, redacted_items, mode, pdf_files,
                   output_files, reported, doc, page_num, page_text, arg, ret>>

\* the loop of anonymize_folder is over: lines 474-480
FolderDone ==
    /\ pc = "file"
    /\ file_idx = Len(pdf_files)
    /\ reported' = <<Len(output_files), Len(pdf_files)>>
    /\ pc' = "done"
    /\ UNCHANGED <<known_names, redaction_count, redacted_items, mode, pdf_files,
                   file_idx, output_files, doc, page_num, page_text, outcome, saved,
                   hist, arg, ret>>

\* anonymize_pdf is called for a single file (main, line 582); input is NoDoc
\* for a file the model has not seen, or the file to read
CallAnonymizePdf(input) ==
    /\ pc = "idle"
    /\ mode' = "single"
    /\ pdf_files' = <<0>>
    /\ file_idx' = 1
    /\ output_files' = <<>>
    /\ reported' = <<>>
    /\ outcome' = [NoOutcome EXCEPT !.attempted = <<0>>]
    /\ hist' = NoHist
    /\ doc' = input
    /\ saved' = NoSaved
    /\ pc' = "open"
    /\ UNCHANGED <<known_names, redaction_count, redacted_items, page_num,
                   page_text, arg, ret>>

AnonymizePdf == CallAnonymizePdf(NoDoc)

\* anonymize_pdf is called for the file the previous call wrote
AnonymizePdfAgain ==
    /\ saved # NoSaved
    /\ saved.doc.run < MaxRuns
    /\ CallAnonymizePdf(saved.doc)

\* an exception leaves anonymize_pdf
Raise(call) ==
    /\ hist' = [hist EXCEPT !.raised = call]
    /\ outcome' = [outcome EXCEPT !.failed = Append(@, pdf_files[file_idx])]
    /\ doc' = NoDoc
    /\ pc' = after_raise(mode)

\* anonymize_pdf, lines 393-409: the counters are reset and the file is opened
\* (d is what fitz.open returns), or fitz.open raises
OpenAs(d, fails) ==
    /\ pc = "open"
    /\ known_names' = reset_counters(known_names).known_names
    /\ redaction_count' = reset_counters(known_names).redaction_count
    /\ redacted_items' = reset_counters(known_names).redacted_items
    /\ page_num' = 0
    /\ page_text' = <<>>
    /\ IF fails
       THEN /\ hist' = [NoHist EXCEPT !.raised = "open"]
            /\ outcome' = [outcome EXCEPT !.failed = Append(@, pdf_files[file_idx])]
            /\ doc' = NoDoc
            /\ pc' = after_raise(mode)
       ELSE /\ hist' = NoHist
            /\ doc' = d
            /\ pc' = IF Len(d.pages) = 0 THEN "metadata" ELSE "page"
            /\ UNCHANGED outcome
    /\ UNCHANGED <<mode, pdf_files, file_idx, output_files, reported, saved, arg, ret>>

\* fitz.open of a file the model has not seen
Open(d, fails) == doc = NoDoc /\ OpenAs(d, fails)

\* fitz.open of a file an earlier call wrote
Reopen(fails) == doc # NoDoc /\ OpenAs([doc EXCEPT !.open = TRUE], fails)

\* redact_page, lines 325-340: the page's text is read and the names of its
\* form fields go into the registry; or page.get_text raises
RedactPageHarvest(fails) ==
    /\ pc = "page"
    /\ IF fails
       THEN /\ Raise("get_text")
            /\ UNCHANGED <<known_names, page_text>>
       ELSE \E text \in {doc.pages[page_num + 1]} :
            \E extracted_names \in {extract_names_from_form_fields(text)} :
                /\ page_text' = text
                /\ known_names' = known_names \cup
                                  UNION {harvest_name(name) : name \in extracted_names}
                /\ hist' = [hist EXCEPT !.accepted =
                                @ \cup {<<page_num, name>> : name \in extracted_names}]
                /\ pc' = "detect"
                /\ UNCHANGED <<doc, outcome>>
    /\ UNCHANGED <<redaction_count, redacted_items, mode, pdf_files, file_idx,
                   output_files, reported, page_num, saved, arg, ret>>

\* redact_page, lines 342-369, and the loop of anonymize_pdf around it (lines
\* 412-417): the spans are found, searched for, marked and applied, and the
\* count is added; or find_pii_in_text raises
RedactPageRedact(label_fits) ==
    /\ pc = "detect"
    /\ \E r \in {redact_matches(known_names, page_text, label_fits)} :
           IF r.raised
           THEN /\ Raise("find_pii_in_text")
                /\ UNCHANGED <<redaction_count, redacted_items, page_num>>
           ELSE /\ redacted_items' = redacted_items \o r.items
                /\ redaction_count' = redaction_count + r.count
                /\ doc' = [doc EXCEPT !.pages[page_num + 1] = r.text]
                /\ page_num' = page_num + 1
                /\ hist' = [hist EXCEPT !.processed = Append(@, page_num),
                                        !.scanned = @ \cup {<<page_num, known_names>>},
                                        !.matches = Append(@, r.matches),
                                        !.texts = Append(@, page_text),
                                        !.literals = Append(@, r.literals),
                                        !.calls = Append(@, r.calls),
                                        !.counts = Append(@, r.count),
                                        !.items = Append(@, r.items)]
                /\ pc' = IF page_num + 1 < Len(doc.pages) THEN "page" ELSE "metadata"
                /\ UNCHANGED outcome
    /\ UNCHANGED <<known_names, mode, pdf_files, file_idx, output_files, reported,
                   page_text, saved, arg, ret>>

\* anonymize_pdf, line 420
RemoveMetadata(set_metadata_fails, xref_set_key_fails) ==
    /\ pc = "metadata"
    /\ LET r == remove_metadata(doc, set_metadata_fails, xref_set_key_fails)
           failed == IF set_metadata_fails THEN "set_metadata"
                     ELSE IF xref_set_key_fails THEN "xref_set_key" ELSE "none"
       IN  IF r.raised
           THEN /\ hist' = [hist EXCEPT !.raised = failed, !.meta_failed = failed]
                /\ outcome' = [outcome EXCEPT !.failed = Append(@, pdf_files[file_idx])]
                /\ doc' = NoDoc
                /\ pc' = after_raise(mode)
           ELSE /\ hist' = [hist EXCEPT !.meta_failed = failed]
                /\ doc' = r.doc
                /\ pc' = "save"
                /\ UNCHANGED outcome
    /\ UNCHANGED <<known_names, redaction_count, redacted_items, mode, pdf_files,
                   file_idx, output_files, reported, page_num, page_text, saved,
                   arg, ret>>

\* anonymize_pdf, lines 423-434, and line 470 of anonymize_folder: the document
\* is saved and closed and its output path returned; or doc.save raises
Save(fails) ==
    /\ pc = "save"
    /\ IF fails
       THEN /\ Raise("save")
            /\ UNCHANGED <<output_files, saved>>
       ELSE LET path == pdf_files[file_idx]
            IN  /\ saved' = [path |-> path,
                             doc |-> [doc EXCEPT !.open = FALSE,
                                                 !.run = @ + 1,
                                                 !.prior = [i \in 1..Len(doc.pages) |->
                                                     doc.prior[i] \cup hist.literals[i]]]]
                /\ hist' = [hist EXCEPT !.saved = TRUE, !.returned = TRUE]
                /\ doc' = NoDoc
                /\ outcome' = [outcome EXCEPT !.completed = Append(@, path)]
                /\ output_files' = IF mode = "folder" THEN Append(output_files, path)
                                   ELSE output_files
                /\ pc' = IF mode = "folder" THEN "file" ELSE "done"
    /\ UNCHANGED <<known_names, redaction_count, redacted_items, mode, pdf_files,
                   file_idx, reported, page_num, page_text, arg, ret>>

\* the top-level call is over and the anonymizer is free for the next one
Finish ==
    /\ pc = "done"
    /\ pc' = "idle"
    /\ mode' = "none"
    /\ pdf_files' = <<>>
    /\ file_idx' = 0
    /\ output_files' = <<>>
    /\ reported' = <<>>
    /\ outcome' = NoOutcome
    /\ hist' = NoHist
    /\ page_num' = 0
    /\ page_text' = <<>>
    /\ UNCHANGED <<known_names, redaction_count, redacted_items, doc, saved, arg, ret>>

Next ==
    \/ \E names \in BatchNameLists : AddKnownNames(names)
    \/ \E n \in 0..MaxFiles : AnonymizeFolder(n)
    \/ FolderNext
    \/ FolderDone
    \/ AnonymizePdf
    \/ \E d \in BatchDocs, fails \in BOOLEAN : Open(d, fails)
    \/ \E fails \in BOOLEAN : RedactPageHarvest(fails)
    \/ \E label_fits \in BOOLEAN : RedactPageRedact(label_fits)
    \/ \E f1 \in BOOLEAN, f2 \in BOOLEAN : RemoveMetadata(f1, f2)
    \/ \E fails \in BOOLEAN : Save(fails)
    \/ Finish

Spec == Init /\ [][Next]_vars

----------------------------------------------------------------------------
(* _merge_overlapping on its own *)

InitMerge ==
    /\ Construct({})
    /\ \E matches \in MergeInputs : arg = [NoArg EXCEPT !.kind = "merge", !.matches = matches]
    /\ ret = NoRet

\* a call of _merge_overlapping(arg.matches) returns
MergeOverlapping ==
    /\ arg.kind = "merge"
    /\ ~ret.done
    /\ ret' = [NoRet EXCEPT !.done = TRUE, !.spans = merge_overlapping(arg.matches)]
    /\ UNCHANGED <<machine_vars, arg>>

NextMerge == MergeOverlapping

SpecMerge == InitMerge /\ [][NextMerge]_vars

----------------------------------------------------------------------------
(* find_pii_in_text on its own *)

InitDetect ==
    /\ Construct({})
    /\ \E names \in DetectNames, text \in DetectTexts :
           arg = [NoArg EXCEPT !.kind = "detect", !.names = names, !.text = text]
    /\ ret = NoRet

\* a call of find_pii_in_text(arg.text) with self.known_names = arg.names
\* returns or raises
FindPiiInText ==
    /\ arg.kind = "detect"
    /\ ~ret.done
    /\ ret' = IF find_pii_raises(arg.names, arg.text)
              THEN [NoRet EXCEPT !.done = TRUE, !.raised = TRUE]
              ELSE [NoRet EXCEPT !.done = TRUE,
                                 !.scan = known_name_scan(arg.names, arg.text),
                                 !.spans = find_pii_in_text(arg.names, arg.text)]
    /\ UNCHANGED <<machine_vars, arg>>

NextDetect == FindPiiInText

SpecDetect == InitDetect /\ [][NextDetect]_vars

----------------------------------------------------------------------------
(* One document, run through anonymize_pdf and run through it again *)

InitDoc ==
    /\ \E seeds \in DocSeeds : Construct(seeds)
    /\ arg = NoArg
    /\ ret = NoRet

\* the first call of anonymize_pdf
AnonymizePdfFirst == saved = NoSaved /\ AnonymizePdf

NextDoc ==
    \/ \E names \in DocNameLists : AddKnownNames(names)
    \/ AnonymizePdfFirst
    \/ AnonymizePdfAgain
    \/ \E d \in DocDocs : Open(d, FALSE)
    \/ Reopen(FALSE)
    \/ RedactPageHarvest(FALSE)
    \/ \E label_fits \in BOOLEAN : RedactPageRedact(label_fits)
    \/ \E f2 \in BOOLEAN : RemoveMetadata(FALSE, f2)
    \/ Save(FALSE)
    \/ Finish

SpecDoc == InitDoc /\ [][NextDoc]_vars

----------------------------------------------------------------------------
(* The pages of one document through redact_page *)

NextPage ==
    \/ \E names \in PageNameLists : AddKnownNames(names)
    \/ AnonymizePdf
    \/ \E d \in PageDocs : Open(d, FALSE)
    \/ \E fails \in BOOLEAN : RedactPageHarvest(fails)
    \/ \E label_fits \in BOOLEAN : RedactPageRedact(label_fits)
    \/ RemoveMetadata(FALSE, FALSE)
    \/ Save(FALSE)
    \/ Finish

SpecPage == Init /\ [][NextPage]_vars

----------------------------------------------------------------------------
(* Properties *)

\* the elements of pdf_files that are not in the list failed, in order
Succeeded(files, failed) ==
    SelectSeq(files, LAMBDA f : \A i \in 1..Len(failed) : failed[i] # f)

\* C1 as stated: when anonymize_folder returns, whatever files were discovered
\* and whichever of them raised, every discovered file was attempted, the
\* returned list holds exactly the files whose anonymize_pdf call completed,
\* in processing order, and the reported count is successes/discovered.
C1_BatchReportsCount ==
    (mode = "folder" /\ pc = "done") =>
        /\ outcome.attempted = pdf_files
        /\ output_files = Succeeded(pdf_files, outcome.failed)
        /\ output_files = outcome.completed
        /\ reported = <<Len(output_files), Len(pdf_files)>>

\* C1 amended: the same when at least one file was discovered; when none was,
\* anonymize_folder returns the empty list and reports no count.
C1_BatchResilience ==
    (mode = "folder" /\ pc = "done") =>
        /\ outcome.attempted = pdf_files
        /\ output_files = Succeeded(pdf_files, outcome.failed)
        /\ output_files = outcome.completed
        /\ pdf_files # <<>> => reported = <<Len(output_files), Len(pdf_files)>>
        /\ pdf_files = <<>> => reported = <<>> /\ output_files = <<>>

\* C1 happens: of three discovered files the second could not be opened and
\* the other two completed, and the batch has reported 2/3
C1_Witness ==
    /\ mode = "folder"
    /\ pc = "done"
    /\ pdf_files = <<1, 2, 3>>
    /\ outcome.failed = <<2>>
    /\ output_files = <<1, 3>>
    /\ reported = <<2, 3>>

\* the offsets at which name occurs in text, case-insensitively, with no
\* alphanumeric character right before it or right after it
Occurrences(name, text) ==
    {p \in 0..(Len(text) - Len(name)) :
        /\ lower(slice(text, p, p + Len(name))) = lower(name)
        /\ p = 0 \/ ~isalnum(text[p])
        /\ p + Len(name) = Len(text) \/ ~isalnum(text[p + Len(name) + 1])}

\* C2: if the form-field extractor accepts a name on page i, the name and its
\* qualifying word-parts (longer than 2 characters, not a stopword,
\* capitalized) are in the registry before known-name matching runs on page
\* i, and on every page j >= i of the document every delimited occurrence of
\* the name in the page's text lies inside a span detection returned.
C2_HarvestedNamesCovered ==
    /\ pc = "detect" =>
           \A a \in hist.accepted :
               /\ a[2] \in known_names
               /\ \A k \in 1..Len(split(a[2])) :
                      LET part == split(a[2])[k]
                      IN  (Len(part) > 2 /\ lower(part) \notin COMMON_WORDS /\ isupper(part[1]))
                              => part \in known_names
    /\ \A a \in hist.accepted :
           \A j \in a[1]..(Len(hist.texts) - 1) :
               \A p \in Occurrences(a[2], hist.texts[j + 1]) :
                   \E i \in 1..Len(hist.matches[j + 1]) :
                       /\ hist.matches[j + 1][i][1] <= p
                       /\ p + Len(a[2]) <= hist.matches[j + 1][i][2]

\* C3: for a registry name of at least 3 characters that is not a stopword,
\* the known-name scan records an occurrence at offset p exactly if the text
\* matches the name case-insensitively at p with no alphanumeric character
\* right before p or right after the occurrence.
C3_KnownNameScan ==
    (arg.kind = "detect" /\ ret.done) =>
        \A name \in arg.names :
            (Len(name) >= 3 /\ lower(name) \notin COMMON_WORDS) =>
                \A p \in 0..Len(arg.text) :
                    <<name, p>> \in ret.scan <=> p \in Occurrences(name, arg.text)

\* C4: the list _merge_overlapping returns is sorted by start and no two of
\* its spans overlap or touch: each span starts strictly after the end of the
\* span before it.
C4_MergedSpansApart ==
    (arg.kind = "merge" /\ ret.done) =>
        \A i \in 1..(Len(ret.spans) - 1) :
            /\ ret.spans[i][1] <= ret.spans[i + 1][1]
            /\ ret.spans[i + 1][1] > ret.spans[i][2]

\* C4 happens: a list with two spans that touch and a third apart from them
\* has come back as two spans
C4_Witness ==
    /\ arg.kind = "merge"
    /\ ret.done
    /\ Len(arg.matches) = 3
    /\ \E i, j \in 1..3 : arg.matches[i][2] = arg.matches[j][1]
    /\ Len(ret.spans) = 2

\* C5: _merge_overlapping fuses each maximal group of overlapping or touching
\* spans into exactly one span, from the group's smallest start to its
\* largest end, with the category of the group's first span in (start
\* ascending, end descending) order; the output covers the offsets the
\* input covers.
C5_MergeFusesGroups ==
    (arg.kind = "merge" /\ ret.done) =>
        LET raw == arg.matches
            out == ret.spans
            n == Len(raw)
            \* spans i and j are in different groups exactly if some offset c
            \* has every span either ending at or before c or starting
            \* after c, with i and j on different sides
            apart(i, j) ==
                \E c \in {raw[h][2] : h \in 1..n} :
                    /\ \A h \in 1..n : raw[h][2] <= c \/ raw[h][1] > c
                    /\ (raw[i][2] <= c) # (raw[j][2] <= c)
            groups == {{j \in 1..n : ~apart(i, j)} : i \in 1..n}
            earlier(i, j) ==
                \/ raw[i][1] < raw[j][1]
                \/ raw[i][1] = raw[j][1] /\ raw[i][2] > raw[j][2]
                \/ raw[i][1] = raw[j][1] /\ raw[i][2] = raw[j][2] /\ i < j
            first(g) == CHOOSE i \in g : \A j \in g \ {i} : earlier(i, j)
            fused(g) == <<Min({raw[i][1] : i \in g}), Max({raw[i][2] : i \in g}),
                          raw[first(g)][3]>>
            covered(spans) == UNION {spans[i][1]..(spans[i][2] - 1) : i \in 1..Len(spans)}
        IN  /\ Len(out) = Cardinality(groups)
            /\ {out[i] : i \in 1..Len(out)} = {fused(g) : g \in groups}
            /\ covered(out) = covered(raw)

\* C5 happens: the list [(0,5,a),(3,8,b),(10,12,c)] has come back as
\* [(0,8,a),(10,12,c)]
C5_Witness ==
    /\ arg.kind = "merge"
    /\ ret.done
    /\ arg.matches = MergeExample
    /\ ret.spans = <<<<0, 8, "a">>, <<10, 12, "c">>>>

\* C6: the registry never holds a string whose lowercase form is a stopword,
\* whatever names the constructor was given, add_known_names was called
\* with, or pages gave.
C6_NoStopwordInRegistry ==
    \A name \in known_names : lower(name) \notin COMMON_WORDS

\* C7: the registry only grows: after every step it is a superset of what
\* it was before; starting a document resets the redaction counter and the
\* audit log but not the registry, so the names harvested from earlier
\* documents of the run are in the registry, and in the registry every page
\* of a later document is scanned with.
C7_RegistryOnlyGrows ==
    /\ [](/\ outcome.harvested \subseteq known_names
          /\ \A s \in hist.scanned : outcome.harvested \subseteq s[2])
    /\ [][/\ known_names \subseteq known_names'
          /\ pc = "open" => redaction_count' = 0 /\ redacted_items' = <<>>]_vars

\* C7 happens: the first file of a batch gave a name to the registry and then
\* failed, and a page of the second file has been scanned with that name
C7_Witness ==
    /\ mode = "folder"
    /\ file_idx = 2
    /\ outcome.failed = <<1>>
    /\ outcome.harvested # {}
    /\ hist.scanned # {}
    /\ \A s \in hist.scanned : outcome.harvested \subseteq s[2]

\* C8: a document is saved only after all its pages have been processed in
\* index order and its standard metadata has been set to the empty map; so
\* every file written has empty standard metadata, redactions or none.
C8_SaveAfterPagesAndMetadata ==
    /\ (pc = "save" \/ hist.saved) =>
           /\ hist.processed = [i \in 1..Len(hist.processed) |-> i - 1]
           /\ hist.meta_failed # "set_metadata"
    /\ pc = "save" => Len(hist.processed) = Len(doc.pages) /\ doc.metadata = {}
    /\ saved # NoSaved =>
           /\ saved.doc.metadata = {}
           /\ hist.saved => Len(hist.processed) = Len(saved.doc.pages)

\* C8 happens: a document of two pages has been written with no redaction
\* made, and its standard metadata is empty
C8_Witness ==
    /\ hist.saved
    /\ saved # NoSaved
    /\ hist.processed = <<0, 1>>
    /\ redaction_count = 0
    /\ saved.doc.metadata = {}

\* C9 as stated: whichever call of remove_metadata fails, the error does not
\* leave anonymize_pdf
C9_MetadataFailureSwallowed ==
    hist.meta_failed # "none" => hist.raised \notin {"set_metadata", "xref_set_key"}

\* C9 amended: a failure of nulling the auxiliary metadata stream is
\* swallowed: it does not leave anonymize_pdf, the document goes on to be
\* saved and, unless saving itself fails, anonymize_pdf returns the output
\* path; a failure of resetting the standard metadata fields leaves
\* anonymize_pdf and the document is not saved.
C9_AuxiliaryFailureSwallowed ==
    /\ hist.meta_failed = "xref_set_key" =>
           /\ hist.raised \in {"none", "save"}
           /\ pc = "save" \/ hist.raised = "save" \/ (hist.saved /\ hist.returned)
    /\ hist.meta_failed = "set_metadata" =>
           /\ hist.raised = "set_metadata"
           /\ ~hist.saved

\* C9 happens: xref_set_key failed, and the document was saved with its
\* auxiliary stream still there and the output path returned
C9_Witness ==
    /\ hist.meta_failed = "xref_set_key"
    /\ hist.saved
    /\ hist.returned
    /\ saved.doc.xml = "present"
    /\ saved.doc.metadata = {}

\* C10: a second run of the pipeline over the output of a first run records
\* no redaction for a literal that the first run redacted.
C10_RerunRedactsNothingAgain ==
    (doc # NoDoc /\ doc.run = 1) =>
        \A k \in 1..Len(hist.literals) :
            hist.literals[k] \cap UNION {doc.prior[i] : i \in 1..Len(doc.prior)} = {}

\* the number of calls of the operation op in a list of calls
CallCount(calls, op) == Cardinality({i \in 1..Len(calls) : calls[i][1] = op})

\* C11: in a redact_page call that returns, apply_redactions is called at
\* most once, after every search_for and add_redact_annot call of the page
\* (one search per span), and exactly if at least one redaction mark was
\* requested; the count returned is the number of marks requested, which is
\* the number of audit records the call appended.
C11_ApplyOnceAfterMarking ==
    /\ Len(hist.calls) = Len(hist.processed)
    /\ \A k \in 1..Len(hist.calls) :
           /\ CallCount(hist.calls[k], "apply_redactions") <= 1
           /\ \A i \in 1..Len(hist.calls[k]) :
                  hist.calls[k][i][1] = "apply_redactions" => i = Len(hist.calls[k])
           /\ CallCount(hist.calls[k], "apply_redactions") = 1
                  <=> CallCount(hist.calls[k], "add_redact_annot") > 0
           /\ CallCount(hist.calls[k], "search_for") = Len(hist.matches[k])
           /\ hist.counts[k] = CallCount(hist.calls[k], "add_redact_annot")
           /\ hist.counts[k] = Len(hist.items[k])
    /\ (pc \in {"page", "metadata"} /\ hist.raised = "none") =>
           /\ Len(redacted_items) = Len(concat(hist.items))
           /\ SubSeq(redacted_items, 1, Len(concat(hist.items))) = concat(hist.items)

\* a two-page document is through redact_page.  The first page has no span:
\* nothing was searched for, marked or applied.  The second has two spans,
\* each found twice: four marks were requested between the two searches and
\* after them, then applied in one call, and the count returned is 4.
C11_Witness ==
    /\ Len(hist.calls) = 2
    /\ hist.calls[1] = <<>>
    /\ hist.counts[1] = 0
    /\ Len(hist.matches[2]) = 2
    /\ CallCount(hist.calls[2], "search_for") = 2
    /\ CallCount(hist.calls[2], "add_redact_annot") = 4
    /\ hist.calls[2][Len(hist.calls[2])][1] = "apply_redactions"
    /\ hist.counts[2] = 4
    /\ Len(redacted_items) = 4

\* C12: every span find_pii_in_text returns lies in the text and is not
\* empty, 0 <= start < end <= length(text), whatever the registry holds
\* (names seeded through the constructor included); for the empty text the
\* result is the empty list.
C12_SpansWithinText ==
    (arg.kind = "detect" /\ ret.done /\ ~ret.raised) =>
        /\ \A i \in 1..Len(ret.spans) :
               /\ 0 <= ret.spans[i][1]
               /\ ret.spans[i][1] < ret.spans[i][2]
               /\ ret.spans[i][2] <= Len(arg.text)
        /\ arg.text = <<>> => ret.spans = <<>>

====
